---- MODULE Spec2Model ----
(***************************************************************************)
(* Focus-navigation tile grid: ColumnList (grid of lanes), RowList (lane   *)
(* of tiles), PosterItem (tile) and TextureManager (shared texture cache). *)
(*                                                                         *)
(* f32 values are modelled as fixed-point integers with Scale units per    *)
(* 1.0; products with the damping factors truncate toward zero.            *)
(* Vec<T> is a function over 0..len-1, Option<T> is <<>> or <<v>>.         *)
(***************************************************************************)
EXTENDS Integers, Sequences, FiniteSets, TLC

VARIABLES
    rows,                \* ColumnList.rows : Vec<RowList>
    selected_row_index,  \* ColumnList.selected_row_index
    scroll_y,            \* ColumnList.scroll_y
    target_scroll_y,     \* ColumnList.target_scroll_y
    cache,               \* TextureManager.cache : src -> Option<SharedTexture>
    textures,            \* WebGlTexture objects: id -> content
    images,              \* HtmlImageElement objects: id -> [src, state, natural_*]
    onload,              \* registered onload closures: image id -> captured texture id
    load_count,          \* history: number of img.set_src(src) calls per src
    returned,            \* history: records handed out by get_texture per src
    result,              \* outcome of the latest fallible call: Ok, Err or Panic
    keys,                \* history: key codes delivered to handle_input
    presses,             \* history: number of handle_input calls so far
    ticks,               \* history: number of update calls so far
    run                  \* history: updates since the grid was last at rest

gridVars  == <<rows, selected_row_index, scroll_y, target_scroll_y>>
cacheVars == <<cache, textures, images, onload, load_count, returned, result>>
vars      == <<rows, selected_row_index, scroll_y, target_scroll_y,
               cache, textures, images, onload, load_count, returned, result,
               keys, presses, ticks, run>>
histVars  == <<keys, presses, ticks, run>>

----------------------------------------------------------------------------
(* Bounds of the model *)

NumRows    == 3
NumItems   == 6
MaxTicks   == 2
MaxPresses == 8
MaxKeys    == 6
MaxE2EKeys == 11
MaxRunPresses == 6
MaxRunTicks == 100
MaxFramePresses == 2
MaxLaneCalls == 3

(* Program constants *)

GridRows    == 20
RowItems    == 10
LANE_HEIGHT == 480
TILE_PITCH  == 320
KEY_LEFT    == 37
KEY_UP      == 38
KEY_RIGHT   == 39
KEY_DOWN    == 40
KEY_OTHER   == 13
USIZE_MAX   == 2147483647

Scale == 10 ^ 4

KeyCodes == {KEY_LEFT, KEY_UP, KEY_RIGHT, KEY_DOWN, KEY_OTHER}

SRC_EVEN  == "MV5BNGI0MDI4Nj.jpg"
SRC_ODD   == "MV5BNDE0MGFkYz.jpg"
Srcs == {SRC_EVEN, SRC_ODD}

None == <<>>
Some(v) == <<v>>
IsSome(o) == o # <<>>
Unwrap(o) == o[1]

VecLen(v) == Cardinality(DOMAIN v)

\* a - b on usize where the build does not check overflow: the difference wraps
\* (USIZE_MAX stands for the largest usize; every index of the model is below it)
UsizeSub(a, b) == IF a >= b THEN a - b ELSE USIZE_MAX - (b - a) + 1

\* what "a - b" on usize can do when a < b: panic (overflow checks on, the
\* default of debug builds) or wrap (overflow checks off, release builds)
OverflowChecks(overflows) == IF overflows THEN {TRUE, FALSE} ELSE {FALSE}

----------------------------------------------------------------------------
(* Fixed-point f32 helpers *)

Abs(a) == IF a < 0 THEN -a ELSE a

\* a * num / den, truncated toward zero
MulFrac(a, num, den) ==
    IF a < 0 THEN -(((-a) * num) \div den) ELSE (a * num) \div den

\* product of two fixed-point values (b >= 0), without overflowing 32 bits
FMul(a, b) == (a \div Scale) * b + ((a % Scale) * b) \div Scale

\* w * (img_h / img_w) for a fixed-point w and positive integers img_w, img_h.
\* The quotient is not rounded to Scale first: f32 keeps 24 significant bits,
\* so the product is off by about 0.00002 at most, far below the 0.01 that
\* the resize step compares with and below one unit of Scale.
FitHeight(w, img_w, img_h) == (w * img_h) \div img_w

----------------------------------------------------------------------------
(* PosterItem *)

PosterItemNew(x, y, w, h, src, resize_contain) ==
    [x |-> x, y |-> y, w |-> w, h |-> h, src |-> src,
     resize_contain |-> resize_contain,
     is_selected |-> FALSE,
     anim_scale |-> Scale,
     offset_x |-> 0, offset_y |-> 0,
     prev_offset_x |-> 0, prev_offset_y |-> 0,
     prev_is_selected |-> FALSE,
     texture |-> None, image_element |-> None, buffer |-> None]

create_rect(it) ==
    LET scale == it.anim_scale
        center_x == it.x + (it.w \div 2)
        center_y == it.y + (it.h \div 2)
        new_w == FMul(it.w, scale)
        new_h == FMul(it.h, scale)
        final_center_x == center_x + it.offset_x
        final_center_y == center_y + it.offset_y
        x  == final_center_x - (new_w \div 2)
        y  == final_center_y - (new_h \div 2)
        x2 == x + new_w
        y2 == y + new_h
    IN  << x,  y,  0, 0,
           x,  y2, 0, 1,
           x2, y,  1, 0,
           x2, y,  1, 0,
           x,  y2, 0, 1,
           x2, y2, 1, 1 >>

\* Variant: the ratio is taken as width / height
ResizeStepInverted(it, imgs) ==
    IF it.resize_contain /\ IsSome(it.image_element)
    THEN LET img   == imgs[Unwrap(it.image_element)]
             img_w == img.natural_width
             img_h == img.natural_height
         IN  IF img_w > 0 /\ img_h > 0
             THEN LET fit == FitHeight(it.w, img_h, img_w)
                  IN  IF Abs(it.h - fit) > Scale \div 100
                      THEN [item |-> [it EXCEPT !.h = fit, !.resize_contain = FALSE],
                            dirty |-> TRUE]
                      ELSE [item |-> it, dirty |-> FALSE]
             ELSE [item |-> it, dirty |-> FALSE]
    ELSE [item |-> it, dirty |-> FALSE]

\* Variant: the fit is given up when the natural size is not known yet
ResizeStepGiveUp(it, imgs) ==
    IF it.resize_contain /\ IsSome(it.image_element)
    THEN LET img   == imgs[Unwrap(it.image_element)]
             img_w == img.natural_width
             img_h == img.natural_height
         IN  IF img_w > 0 /\ img_h > 0
             THEN LET fit == FitHeight(it.w, img_w, img_h)
                  IN  IF Abs(it.h - fit) > Scale \div 100
                      THEN [item |-> [it EXCEPT !.h = fit, !.resize_contain = FALSE],
                            dirty |-> TRUE]
                      ELSE [item |-> it, dirty |-> FALSE]
             ELSE [item |-> [it EXCEPT !.resize_contain = FALSE], dirty |-> FALSE]
    ELSE [item |-> it, dirty |-> FALSE]

\* A. Resize Logic: the item after the aspect-fit step, and whether it marked dirty
ResizeStep(it, imgs) ==
    IF it.resize_contain /\ IsSome(it.image_element)
    THEN LET img   == imgs[Unwrap(it.image_element)]
             img_w == img.natural_width
             img_h == img.natural_height
         IN  IF img_w > 0 /\ img_h > 0
             THEN LET fit == FitHeight(it.w, img_w, img_h)
                  IN  IF Abs(it.h - fit) > Scale \div 100
                      THEN [item |-> [it EXCEPT !.h = fit, !.resize_contain = FALSE],
                            dirty |-> TRUE]
                      ELSE [item |-> it, dirty |-> FALSE]
             ELSE [item |-> it, dirty |-> FALSE]
    ELSE [item |-> it, dirty |-> FALSE]

\* Variant: offsets are re-uploaded only after moving by more than 1.0
ScrollStepCoarse(it) ==
    LET dx == Abs(it.offset_x - it.prev_offset_x) > Scale
        dy == Abs(it.offset_y - it.prev_offset_y) > Scale
    IN  [item |-> [it EXCEPT
                     !.prev_offset_x = IF dx THEN it.offset_x ELSE @,
                     !.prev_offset_y = IF dy THEN it.offset_y ELSE @],
         dirty |-> dx \/ dy]

\* B. Scroll check (X and Y)
ScrollStep(it) ==
    LET dx == Abs(it.offset_x - it.prev_offset_x) > Scale \div 10
        dy == Abs(it.offset_y - it.prev_offset_y) > Scale \div 10
    IN  [item |-> [it EXCEPT
                     !.prev_offset_x = IF dx THEN it.offset_x ELSE @,
                     !.prev_offset_y = IF dy THEN it.offset_y ELSE @],
         dirty |-> dx \/ dy]

\* C. Animation logic (lerp of anim_scale)
AnimStep(it) ==
    LET target_scale == IF it.is_selected THEN (12 * Scale) \div 10 ELSE Scale
        diff == target_scale - it.anim_scale
    IN  IF Abs(diff) > Scale \div 1000
        THEN [item |-> [it EXCEPT !.anim_scale = @ + MulFrac(diff, 15, 100)],
              dirty |-> TRUE]
        ELSE IF it.anim_scale # target_scale
             THEN [item |-> [it EXCEPT !.anim_scale = target_scale], dirty |-> TRUE]
             ELSE [item |-> it, dirty |-> FALSE]

\* D. Upload
UploadStep(it, needs_upload) ==
    IF needs_upload /\ IsSome(it.buffer)
    THEN [it EXCEPT !.buffer = Some(create_rect(it))]
    ELSE it

PosterItemUpdate(it, imgs) ==
    LET a == ResizeStep(it, imgs)
        b == ScrollStep(a.item)
        c == AnimStep(b.item)
    IN  UploadStep(c.item, a.dirty \/ b.dirty \/ c.dirty)

----------------------------------------------------------------------------
(* RowList *)

RowListNew(y_start, n) ==
    [items |-> [i \in 0..(n - 1) |->
                  PosterItemNew(50 * Scale + i * (TILE_PITCH * Scale), y_start,
                                300 * Scale, 200 * Scale,
                                IF i % 2 = 0 THEN SRC_EVEN ELSE SRC_ODD, TRUE)],
     selected_index |-> 0,
     is_active |-> FALSE,
     scroll_x |-> 0,
     target_scroll_x |-> 0,
     offset_y |-> 0]


\* Variant: the window is taken to hold six tiles instead of five
RowTargetScrollXLate(selected_index) ==
    IF selected_index > 5
    THEN -((selected_index - 5) * (TILE_PITCH * Scale))
    ELSE 0

\* Variant: the pitch of the stale comment ("Item Width + Gap = 220.0")
RowTargetScrollXOldPitch(selected_index) ==
    IF selected_index > 4
    THEN -((selected_index - 4) * (220 * Scale))
    ELSE 0

RowTargetScrollX(selected_index) ==
    IF selected_index > 4
    THEN -((selected_index - 4) * (TILE_PITCH * Scale))
    ELSE 0


\* Variant: Left on the first tile wraps around to the last one
RowMoveLeftWrap(row) ==
    IF row.selected_index > 0
    THEN row.selected_index - 1
    ELSE VecLen(row.items) - 1

\* Variant: Left jumps to the first item
RowMoveLeftToFirst(row) == 0

RowMoveLeft(row) ==
    IF row.selected_index > 0 THEN row.selected_index - 1 ELSE row.selected_index


\* Variant: Right without the bound check
RowMoveRightUnchecked(row) == row.selected_index + 1

RowMoveRight(row) ==
    IF row.selected_index < UsizeSub(VecLen(row.items), 1)
    THEN row.selected_index + 1
    ELSE row.selected_index

\* self.items.len() - 1 is evaluated on an active row for key 39 only
RowInputOverflows(row, key_code) ==
    row.is_active /\ key_code = KEY_RIGHT /\ VecLen(row.items) < 1

\* Variant: the row jumps to its new scroll target at once
RowHandleInputJump(row, key_code) ==
    IF ~row.is_active
    THEN row
    ELSE LET sel == CASE key_code = KEY_LEFT  -> RowMoveLeft(row)
                      [] key_code = KEY_RIGHT -> RowMoveRight(row)
                      [] OTHER -> row.selected_index
         IN  [row EXCEPT !.selected_index = sel,
                         !.target_scroll_x = RowTargetScrollX(sel),
                         !.scroll_x = RowTargetScrollX(sel)]

\* Variant: the key is handled whether or not the row is active
RowHandleInputAlways(row, key_code) ==
    LET sel == CASE key_code = KEY_LEFT  -> RowMoveLeft(row)
                 [] key_code = KEY_RIGHT -> RowMoveRight(row)
                 [] OTHER -> row.selected_index
    IN  [row EXCEPT !.selected_index = sel,
                    !.target_scroll_x = RowTargetScrollX(sel)]

RowHandleInput(row, key_code) ==
    IF ~row.is_active
    THEN row
    ELSE LET sel == CASE key_code = KEY_LEFT  -> RowMoveLeft(row)
                      [] key_code = KEY_RIGHT -> RowMoveRight(row)
                      [] OTHER -> row.selected_index
         IN  [row EXCEPT !.selected_index = sel,
                         !.target_scroll_x = RowTargetScrollX(sel)]

\* Variant: the step is 110% of the remaining distance
LerpOvershoot(current, target) ==
    LET diff == target - current
    IN  IF Abs(diff) > Scale \div 2
        THEN current + MulFrac(diff, 11, 10)
        ELSE target

\* Variant: the value is never snapped to the target
LerpNoSnap(current, target) == current + MulFrac(target - current, 1, 10)

\* 10% of the remaining distance per tick, snap to the target within 0.5
Lerp(current, target) ==
    LET diff == target - current
    IN  IF Abs(diff) > Scale \div 2
        THEN current + MulFrac(diff, 1, 10)
        ELSE target


\* Variant: the selection flag follows the first tile, not selected_index
ShouldBeSelectedFirst(row, i) == row.is_active /\ (i = 0)

ShouldBeSelected(row, i) == row.is_active /\ (i = row.selected_index)

\* Variant: the items are given the scroll_x of before this update
RowUpdateStale(row, imgs) ==
    LET sx == Lerp(row.scroll_x, row.target_scroll_x)
    IN  [row EXCEPT
           !.scroll_x = sx,
           !.items = [i \in DOMAIN row.items |->
                        PosterItemUpdate(
                          [row.items[i] EXCEPT
                             !.is_selected = ShouldBeSelected(row, i),
                             !.offset_x = row.scroll_x,
                             !.offset_y = row.offset_y],
                          imgs)]]

RowUpdate(row, imgs) ==
    LET sx == Lerp(row.scroll_x, row.target_scroll_x)
    IN  [row EXCEPT
           !.scroll_x = sx,
           !.items = [i \in DOMAIN row.items |->
                        PosterItemUpdate(
                          [row.items[i] EXCEPT
                             !.is_selected = ShouldBeSelected(row, i),
                             !.offset_x = sx,
                             !.offset_y = row.offset_y],
                          imgs)]]

----------------------------------------------------------------------------
(* ColumnList *)

ColumnListNewRows(n, m) ==
    [i \in 0..(n - 1) |->
       [RowListNew(50 * Scale + i * (LANE_HEIGHT * Scale), m)
          EXCEPT !.is_active = (i = 0)]]


\* Variant: scrolling starts at the second row instead of the third
ColTargetScrollYEarly(sri) ==
    IF sri > 0 THEN -(sri * (LANE_HEIGHT * Scale)) ELSE 0

\* Variant: the row height of the stale comment ("Row Height = 220.0")
ColTargetScrollYOldHeight(sri) ==
    IF sri > 1 THEN -((sri - 1) * (220 * Scale)) ELSE 0

ColTargetScrollY(sri) ==
    IF sri > 1 THEN -((sri - 1) * (LANE_HEIGHT * Scale)) ELSE 0

CanMoveUp(sri) == sri > 0

CanMoveDown(sri, rs) == sri < UsizeSub(VecLen(rs), 1)


\* Variant: the old row is not deactivated
MoveRowKeepOld(rs, from, to) == [rs EXCEPT ![to].is_active = TRUE]

\* Variant: the row that becomes active starts again at its first item
MoveRowResetFocus(rs, from, to) ==
    [rs EXCEPT ![from].is_active = FALSE,
               ![to].is_active = TRUE,
               ![to].selected_index = 0,
               ![to].target_scroll_x = RowTargetScrollX(0)]

\* Deactivate the old row, move the selection, activate the new row
MoveRow(rs, from, to) ==
    [rs EXCEPT ![from].is_active = FALSE, ![to].is_active = TRUE]

\* Variant: a horizontal key also resets the selection of the other rows
DelegateResetOthers(rs, sri, key_code) ==
    [r \in DOMAIN rs |->
        IF r = sri
        THEN RowHandleInput(rs[r], key_code)
        ELSE [rs[r] EXCEPT !.selected_index = 0,
                           !.target_scroll_x = RowTargetScrollX(0)]]

\* 37 | 39: delegate to the active row
Delegate(rs, sri, key_code) == [rs EXCEPT ![sri] = RowHandleInput(@, key_code)]

HandleInput(key_code) ==
    LET sri == selected_row_index
        up    == key_code = KEY_UP /\ CanMoveUp(sri)
        down  == key_code = KEY_DOWN /\ CanMoveDown(sri, rows)
        horiz == key_code \in {KEY_LEFT, KEY_RIGHT} /\ sri \in DOMAIN rows
        new_sri == IF up THEN sri - 1 ELSE IF down THEN sri + 1 ELSE sri
        overflows == \/ key_code = KEY_DOWN /\ VecLen(rows) < 1
                     \/ horiz /\ RowInputOverflows(rows[sri], key_code)
    IN  \E checked \in OverflowChecks(overflows) :
          IF checked
          THEN /\ result' = "Panic"
               /\ UNCHANGED <<gridVars, cache, textures, images, onload,
                              load_count, returned>>
          ELSE /\ selected_row_index' = new_sri
               /\ rows' = IF up \/ down THEN MoveRow(rows, sri, new_sri)
                          ELSE IF horiz
                               THEN Delegate(rows, sri, key_code)
                               ELSE rows
               /\ target_scroll_y' = ColTargetScrollY(new_sri)
               /\ UNCHANGED <<scroll_y, cacheVars>>

Update ==
    LET sy == Lerp(scroll_y, target_scroll_y)
    IN  /\ scroll_y' = sy
        /\ rows' = [i \in DOMAIN rows |->
                      RowUpdate([rows[i] EXCEPT !.offset_y = sy], images)]
        /\ UNCHANGED <<selected_row_index, target_scroll_y, cacheVars>>

\* RowList::handle_input called on row r directly
RowInput(r, key_code) ==
    \E checked \in OverflowChecks(RowInputOverflows(rows[r], key_code)) :
        IF checked
        THEN /\ result' = "Panic"
             /\ UNCHANGED <<gridVars, cache, textures, images, onload,
                            load_count, returned>>
        ELSE /\ rows' = [rows EXCEPT ![r] = RowHandleInput(@, key_code)]
             /\ UNCHANGED <<selected_row_index, scroll_y, target_scroll_y, cacheVars>>

----------------------------------------------------------------------------
(* TextureManager *)

\* The manager together with the browser objects its records point to
Manager ==
    [cache |-> cache, textures |-> textures, images |-> images,
     onload |-> onload, load_count |-> load_count, returned |-> returned]

TextureManagerNew == [s \in Srcs |-> None]


\* Variant: the cache is never consulted
CacheLookupNever(m, src) == None

\* Variant: a record whose load failed is treated as absent and loaded again
CacheLookupRetry(m, src) ==
    IF /\ IsSome(m.cache[src])
       /\ m.images[Unwrap(m.cache[src]).image].state = "broken"
    THEN None
    ELSE m.cache[src]

\* 1. CHECK CACHE
CacheLookup(m, src) == m.cache[src]


\* Variant: the new record is returned but not stored
CacheInsertDropped(c, src, shared) == c

\* 3. STORE IN CACHE
CacheInsert(c, src, shared) == [c EXCEPT ![src] = Some(shared)]

\* img.set_src(src): the browser starts one fetch of src
SetSrc(counts, src) == [counts EXCEPT ![src] = @ + 1]

\* history entry of one successful get_texture call
Handed(m, src, shared, hit) ==
    [m.returned EXCEPT ![src] = @ \cup
        {[record |-> shared, hit |-> hit, state |-> m.images[shared.image].state]}]

Outcomes == {"ok", "no_texture", "upload_rejected"}

\* Variant: the record is cached before the placeholder upload can fail
GetTextureOpEager(m, src, outcome) ==
    LET found == CacheLookup(m, src)
    IN  IF IsSome(found)
        THEN [m |-> [m EXCEPT !.returned = Handed(m, src, Unwrap(found), TRUE)],
              res |-> found]
        ELSE IF outcome = "no_texture"
        THEN [m |-> m, res |-> None]
        ELSE LET tid == Len(m.textures) + 1
                 iid == Len(m.images) + 1
                 shared == [texture |-> tid, image |-> iid]
                 m1 == [m EXCEPT
                          !.textures = Append(@, "placeholder"),
                          !.images = Append(@, [src |-> src, state |-> "loading",
                                                natural_width |-> 0,
                                                natural_height |-> 0]),
                          !.onload = Append(@, tid),
                          !.load_count = SetSrc(@, src),
                          !.cache = CacheInsert(@, src, shared)]
             IN  IF outcome = "upload_rejected"
                 THEN [m |-> m1, res |-> None]
                 ELSE [m |-> [m1 EXCEPT !.returned = Handed(m1, src, shared, FALSE)],
                       res |-> Some(shared)]

\* get_texture: the manager after the call and Ok(shared) as Some, Err as None
GetTextureOp(m, src, outcome) ==
    LET found == CacheLookup(m, src)
    IN  IF IsSome(found)
        THEN [m |-> [m EXCEPT !.returned = Handed(m, src, Unwrap(found), TRUE)],
              res |-> found]
        ELSE IF outcome # "ok"
        THEN [m |-> m, res |-> None]
        ELSE LET tid == Len(m.textures) + 1
                 iid == Len(m.images) + 1
                 shared == [texture |-> tid, image |-> iid]
                 m1 == [m EXCEPT
                          !.textures = Append(@, "placeholder"),
                          !.images = Append(@, [src |-> src, state |-> "loading",
                                                natural_width |-> 0,
                                                natural_height |-> 0]),
                          !.onload = Append(@, tid),
                          !.load_count = SetSrc(@, src),
                          !.cache = CacheInsert(@, src, shared)]
             IN  [m |-> [m1 EXCEPT !.returned = Handed(m1, src, shared, FALSE)],
                  res |-> Some(shared)]

SetManager(m) ==
    /\ cache' = m.cache
    /\ textures' = m.textures
    /\ images' = m.images
    /\ onload' = m.onload
    /\ load_count' = m.load_count
    /\ returned' = m.returned

GetTexture(src, outcome) ==
    LET g == GetTextureOp(Manager, src, outcome)
    IN  /\ SetManager(g.m)
        /\ result' = IF IsSome(g.res) THEN "Ok" ELSE "Err"
        /\ UNCHANGED gridVars

\* Variant: the closure uploads into the texture created last
ImageOnloadLatest(iid, nw, nh) ==
    /\ iid \in DOMAIN images
    /\ images[iid].state = "loading"
    /\ images' = [images EXCEPT ![iid].state = "complete",
                                ![iid].natural_width = nw,
                                ![iid].natural_height = nh]
    /\ textures' = [textures EXCEPT ![Len(textures)] = "image"]
    /\ UNCHANGED <<gridVars, cache, onload, load_count, returned, result>>

\* The onload closure of image iid: upload the decoded image into the captured texture
ImageOnload(iid, nw, nh) ==
    /\ iid \in DOMAIN images
    /\ images[iid].state = "loading"
    /\ images' = [images EXCEPT ![iid].state = "complete",
                                ![iid].natural_width = nw,
                                ![iid].natural_height = nh]
    /\ textures' = [textures EXCEPT ![onload[iid]] = "image"]
    /\ UNCHANGED <<gridVars, cache, onload, load_count, returned, result>>

\* The fetch or decode fails: no handler is registered, the record stays as it is
ImageOnerror(iid) ==
    /\ iid \in DOMAIN images
    /\ images[iid].state = "loading"
    /\ images' = [images EXCEPT ![iid].state = "broken"]
    /\ UNCHANGED <<gridVars, cache, textures, onload, load_count, returned, result>>

----------------------------------------------------------------------------
(* load_assets *)

\* PosterItem::init_buffer; a failed create_buffer leaves the item untouched
init_buffer(it, ok) ==
    IF ok THEN [it EXCEPT !.buffer = Some(create_rect(it))] ELSE it

set_texture(it, texture, image) ==
    [it EXCEPT !.texture = Some(texture), !.image_element = Some(image)]

\* One iteration of RowList::load_assets for item i; st = [items, m, err]
LoadItem(st, i, buf_ok, outcome) ==
    LET it1 == init_buffer(st.items[i], buf_ok)
        g   == GetTextureOp(st.m, it1.src, outcome[it1.src])
    IN  IF IsSome(g.res)
        THEN [items |-> [st.items EXCEPT
                           ![i] = set_texture(it1, Unwrap(g.res).texture,
                                              Unwrap(g.res).image)],
              m |-> g.m, err |-> FALSE]
        ELSE [items |-> [st.items EXCEPT ![i] = it1], m |-> g.m, err |-> TRUE]

RECURSIVE RowLoadFrom(_, _, _, _, _)
RowLoadFrom(st, i, r, bad, outcome) ==
    IF st.err \/ i \notin DOMAIN st.items
    THEN st
    ELSE RowLoadFrom(LoadItem(st, i, <<r, i>> \notin bad, outcome),
                     i + 1, r, bad, outcome)

\* RowList::load_assets of row r
RowLoadAssets(row, r, m, bad, outcome) ==
    RowLoadFrom([items |-> row.items, m |-> m, err |-> FALSE], 0, r, bad, outcome)

\* ColumnList::load_assets from row r on; st = [rows, m, err]
RECURSIVE ColLoadFrom(_, _, _, _)
ColLoadFrom(st, r, bad, outcome) ==
    IF st.err \/ r \notin DOMAIN st.rows
    THEN st
    ELSE LET done == RowLoadAssets(st.rows[r], r, st.m, bad, outcome)
         IN  ColLoadFrom([rows |-> [st.rows EXCEPT ![r].items = done.items],
                          m |-> done.m, err |-> done.err],
                         r + 1, bad, outcome)

\* create_buffer failures the model draws from: none, the first item's buffer
\* or the last item's buffer
BufferFailures ==
    {{}, {<<0, 0>>}, {<<VecLen(rows) - 1, VecLen(rows[0].items) - 1>>}}

\* bad: the items whose create_buffer fails; outcome: what a first request of
\* each src meets
LoadAssets(bad, outcome) ==
    LET done == ColLoadFrom([rows |-> rows, m |-> Manager, err |-> FALSE],
                            0, bad, outcome)
    IN  /\ rows' = done.rows
        /\ SetManager(done.m)
        /\ result' = IF done.err THEN "Err" ELSE "Ok"
        /\ UNCHANGED <<selected_row_index, scroll_y, target_scroll_y>>

----------------------------------------------------------------------------
(* Specifications *)

InitCache ==
    /\ cache = TextureManagerNew
    /\ textures = <<>>
    /\ images = <<>>
    /\ onload = <<>>
    /\ load_count = [s \in Srcs |-> 0]
    /\ returned = [s \in Srcs |-> {}]
    /\ result = "Ok"

InitGrid(n, m) ==
    /\ rows = ColumnListNewRows(n, m)
    /\ selected_row_index = 0
    /\ scroll_y = 0
    /\ target_scroll_y = 0

InitHist ==
    /\ keys = <<>>
    /\ presses = 0
    /\ ticks = 0
    /\ run = 0

Init ==
    /\ InitGrid(NumRows, NumItems)
    /\ InitCache
    /\ InitHist

\* Navigation: inputs interleaved with ticks
Input ==
    \E k \in KeyCodes :
        /\ presses < MaxPresses
        /\ HandleInput(k)
        /\ presses' = presses + 1
        /\ UNCHANGED <<keys, ticks, run>>

Tick ==
    /\ ticks < MaxTicks
    /\ Update
    /\ ticks' = ticks + 1
    /\ UNCHANGED <<keys, presses, run>>

Next == Input \/ Tick

Spec == Init /\ [][Next]_vars

\* Navigation with the delivered key codes recorded
Press ==
    \E k \in KeyCodes :
        /\ Len(keys) < MaxKeys
        /\ HandleInput(k)
        /\ keys' = Append(keys, k)
        /\ UNCHANGED <<presses, ticks, run>>

SpecKeys == Init /\ [][Press]_vars

\* The 20 x 10 grid of ColumnList::new, driven by Down and Right
InitE2E ==
    /\ InitGrid(GridRows, RowItems)
    /\ InitCache
    /\ InitHist

PressE2E ==
    \E k \in {KEY_DOWN, KEY_RIGHT} :
        /\ Len(keys) < MaxE2EKeys
        /\ HandleInput(k)
        /\ keys' = Append(keys, k)
        /\ UNCHANGED <<presses, ticks, run>>

SpecE2E == InitE2E /\ [][PressE2E]_vars

\* The texture cache: requests, asset loading and load completions
NaturalSizes == {<<600, 300>>, <<300, 200>>}

\* a request of a cached src allocates nothing, so nothing can fail
MayMeet(o, s) == o # "ok" => cache[s] = None

Get ==
    \E s \in Srcs, o \in Outcomes :
        MayMeet(o, s) /\ GetTexture(s, o) /\ UNCHANGED histVars

Load ==
    \E bad \in BufferFailures, o \in [Srcs -> Outcomes] :
        /\ \A s \in Srcs : MayMeet(o[s], s)
        /\ LoadAssets(bad, o)
        /\ UNCHANGED histVars

Loaded ==
    \E iid \in DOMAIN images, d \in NaturalSizes :
        ImageOnload(iid, d[1], d[2]) /\ UNCHANGED histVars

Failed == \E iid \in DOMAIN images : ImageOnerror(iid) /\ UNCHANGED histVars

NextCache == Get \/ Load \/ Loaded \/ Failed

SpecCache == Init /\ [][NextCache]_vars

\* Start-up and frames: load_assets before the first update, then updates
\* interleaved with the completions and failures of the image loads
Startup == ticks = 0 /\ Load

NextAssets == Startup \/ Loaded \/ Failed \/ Tick

SpecAssets == Init /\ [][NextAssets]_vars

\* Calls of RowList::handle_input on any row, active or not, between Up and
\* Down of the grid; keys records [lane, key], lane -1 standing for the grid
RowCall ==
    \E r \in DOMAIN rows, k \in KeyCodes :
        /\ Len(keys) < MaxLaneCalls
        /\ RowInput(r, k)
        /\ keys' = Append(keys, [lane |-> r, key |-> k])
        /\ UNCHANGED <<presses, ticks, run>>

GridCall ==
    \E k \in {KEY_UP, KEY_DOWN} :
        /\ Len(keys) < MaxLaneCalls
        /\ HandleInput(k)
        /\ keys' = Append(keys, [lane |-> -1, key |-> k])
        /\ UNCHANGED <<presses, ticks, run>>

NextLane == RowCall \/ GridCall

SpecLane == Init /\ [][NextLane]_vars

\* A grid whose first row holds no items (RowList.items is a public Vec)
InitEmpty ==
    /\ rows = [ColumnListNewRows(NumRows, NumItems) EXCEPT ![0].items = <<>>]
    /\ selected_row_index = 0
    /\ scroll_y = 0
    /\ target_scroll_y = 0
    /\ InitCache
    /\ InitHist

SpecEmpty == InitEmpty /\ [][Next]_vars

\* Animation runs: keys arrive while the grid is at rest, then update is
\* called until every interpolated value has reached its target
TargetScale(row, i) == IF ShouldBeSelected(row, i) THEN (12 * Scale) \div 10 ELSE Scale

Settled ==
    /\ scroll_y = target_scroll_y
    /\ \A r \in DOMAIN rows :
           /\ rows[r].scroll_x = rows[r].target_scroll_x
           /\ \A i \in DOMAIN rows[r].items :
                  rows[r].items[i].anim_scale = TargetScale(rows[r], i)

InputWithin(limit) ==
    \E k \in KeyCodes :
        /\ run = 0
        /\ presses < limit
        /\ HandleInput(k)
        /\ presses' = presses + 1
        /\ UNCHANGED <<keys, ticks, run>>

InputAtRest == InputWithin(MaxRunPresses)

TickRun ==
    /\ run < MaxRunTicks
    /\ Update
    /\ run' = IF Settled' THEN 0 ELSE run + 1
    /\ UNCHANGED <<keys, presses, ticks>>

NextSettle == InputAtRest \/ TickRun

SpecSettle == Init /\ [][NextSettle]_vars

\* Frames of a loaded grid: one load_assets whose textures are all allocated,
\* then image loads completing and keys arriving at rest, and runs of updates
StartupAtRest ==
    \E bad \in BufferFailures :
        /\ cache = TextureManagerNew
        /\ LoadAssets(bad, [s \in Srcs |-> "ok"])
        /\ UNCHANGED histVars

LoadedAtRest == run = 0 /\ Loaded

InputFrames == InputWithin(MaxFramePresses)

NextFrames == StartupAtRest \/ LoadedAtRest \/ InputFrames \/ TickRun

SpecFrames == Init /\ [][NextFrames]_vars

----------------------------------------------------------------------------
(* Claims *)

ActiveRow == rows[selected_row_index]

LastRow == VecLen(rows) - 1

LastItem(row) == VecLen(row.items) - 1

\* C1: after any inputs and ticks, 0 <= active_lane_index < lane_count and,
\* for every lane, 0 <= selected_index < tile_count.
C1_IndicesInRange ==
    /\ 0 <= selected_row_index
    /\ selected_row_index < VecLen(rows)
    /\ \A r \in DOMAIN rows :
         /\ 0 <= rows[r].selected_index
         /\ rows[r].selected_index < VecLen(rows[r].items)

\* the last lane and its last tile are focused, every press and tick is spent
C1_Witness ==
    /\ presses = MaxPresses
    /\ ticks = MaxTicks
    /\ selected_row_index = LastRow
    /\ ActiveRow.selected_index = LastItem(ActiveRow)

\* C2: in every reachable state exactly one lane has its active flag set, and
\* it is the lane at active_lane_index.
C2_ExactlyOneActive ==
    {r \in DOMAIN rows : rows[r].is_active} = {selected_row_index}

C2_Witness ==
    /\ selected_row_index = 1
    /\ rows[0].selected_index > 0
    /\ rows[2].selected_index > 0
    /\ ticks > 0
    /\ rows[1].is_active

SelectedTiles(row) == {i \in DOMAIN row.items : row.items[i].is_selected}

\* C3 as stated: in every reachable state, also right after construction and
\* between an input and the next tick, exactly one tile of the active lane
\* has is_selected, the tile at selected_index.
C3_Original == SelectedTiles(ActiveRow) = {ActiveRow.selected_index}

\* C3 as amended: every tick leaves exactly one tile of the active lane with
\* is_selected set, the tile at that lane's selected_index.
C3_SelectedAfterTick ==
    [][Update => (SelectedTiles(ActiveRow) = {ActiveRow.selected_index})']_vars

\* a tick has selected a tile other than the first on a lane other than the first
C3_Witness ==
    /\ ticks > 0
    /\ selected_row_index > 0
    /\ ActiveRow.selected_index > 0
    /\ SelectedTiles(ActiveRow) = {ActiveRow.selected_index}

\* C4: any two get calls with the same key return the identical shared record
\* (same texture handle, same image handle), whatever the load state at the
\* two calls and whatever is requested in between.
C4_SameRecord ==
    \A s \in Srcs : \A a, b \in returned[s] :
        /\ a.record.texture = b.record.texture
        /\ a.record.image = b.record.image

\* one key was requested first, again while loading and again after completion,
\* with the other key requested as well
C4_Witness ==
    \E s \in Srcs :
        /\ \E a \in returned[s] : ~a.hit
        /\ \E a \in returned[s] : a.hit /\ a.state = "loading"
        /\ \E a \in returned[s] : a.hit /\ a.state = "complete"
        /\ \E o \in Srcs \ {s} : returned[o] # {}

\* C5: at most one asynchronous load is ever initiated per key, also when the
\* key is requested again while its load is in flight or after it failed.
C5_AtMostOneLoad == \A s \in Srcs : load_count[s] <= 1

\* a key was requested again while loading and again after its load failed
C5_Witness ==
    \E s \in Srcs :
        /\ load_count[s] = 1
        /\ \E a \in returned[s] : a.hit /\ a.state = "loading"
        /\ \E a \in returned[s] : a.hit /\ a.state = "broken"

\* C6: scroll_y_target = F(active_lane_index), F(0) = F(1) = 0 and
\* F(k) = -(k-1)*LANE_HEIGHT for k > 1, after every input and every tick.
C6_TargetY ==
    /\ selected_row_index \in {0, 1} => target_scroll_y = 0
    /\ selected_row_index > 1 =>
         target_scroll_y + (selected_row_index - 1) * LANE_HEIGHT * Scale = 0

C6_Witness ==
    /\ selected_row_index = 2
    /\ target_scroll_y = -(LANE_HEIGHT * Scale)
    /\ ticks = MaxTicks

\* C7: for every lane, active or not, scroll_x_target = G(selected_index),
\* G(k) = 0 for k <= 4 and G(k) = -(k-4)*TILE_PITCH for k > 4.
C7_TargetX ==
    \A r \in DOMAIN rows :
        /\ rows[r].selected_index <= 4 => rows[r].target_scroll_x = 0
        /\ rows[r].selected_index > 4 =>
             rows[r].target_scroll_x
               + (rows[r].selected_index - 4) * TILE_PITCH * Scale = 0

\* a lane that was left at tile 5 keeps its target while inactive
C7_Witness ==
    \E r \in DOMAIN rows :
        /\ ~rows[r].is_active
        /\ rows[r].selected_index = 5
        /\ rows[r].target_scroll_x = -(TILE_PITCH * Scale)
        /\ ticks > 0

Repeat(k, n) == [i \in 1..n |-> k]

FiveDowns == Repeat(KEY_DOWN, 5)

\* C8 as stated: on the 20 x 10 grid with LANE_HEIGHT = 480, five Down inputs
\* from (0,0) give active_lane_index = 5 and scroll_y_target = -1440.
C8_Original ==
    keys = FiveDowns =>
        /\ selected_row_index = 5
        /\ target_scroll_y = -(1440 * Scale)

\* C8 as amended: five Down inputs from (0,0) give active_lane_index = 5 and
\* scroll_y_target = -(5 - 1) * 480 = -1920.
C8_FiveDowns ==
    keys = FiveDowns =>
        /\ selected_row_index = 5
        /\ target_scroll_y = -(1920 * Scale)

C8_Witness ==
    /\ keys = FiveDowns
    /\ VecLen(rows) = 20
    /\ rows[5].is_active
    /\ target_scroll_y < 0

\* C9: on the 20 x 10 grid with TILE_PITCH = 320, six Right inputs after the
\* five Downs give selected_index = 6 and scroll_x_target = -640 on lane 5.
C9_SixRights ==
    keys = FiveDowns \o Repeat(KEY_RIGHT, 6) =>
        /\ selected_row_index = 5
        /\ rows[5].selected_index = 6
        /\ rows[5].target_scroll_x = -(640 * Scale)

C9_Witness ==
    /\ keys = FiveDowns \o Repeat(KEY_RIGHT, 6)
    /\ VecLen(rows[5].items) = 10
    /\ rows[5].selected_index = 6

\* the navigation state: indices, active flags and scroll targets
NavState ==
    <<selected_row_index, target_scroll_y,
      [r \in DOMAIN rows |->
         <<rows[r].is_active, rows[r].selected_index, rows[r].target_scroll_x>>]>>

OutOfRange(k) ==
    \/ k = KEY_UP /\ selected_row_index = 0
    \/ k = KEY_DOWN /\ selected_row_index = LastRow
    \/ k = KEY_LEFT /\ ActiveRow.selected_index = 0
    \/ k = KEY_RIGHT /\ ActiveRow.selected_index = LastItem(ActiveRow)

\* C10: Up on the first lane, Down on the last lane, Left on the first tile
\* and Right on the last tile of the active lane leave the whole navigation
\* state (indices, active flags, scroll targets) as it was.
C10_OutOfRangeNoOp ==
    [][\A k \in KeyCodes :
         (keys' = Append(keys, k) /\ OutOfRange(k)) => NavState' = NavState]_vars

\* Right was pressed once more on the last tile of the first lane
C10_Witness ==
    /\ keys = Repeat(KEY_RIGHT, NumItems)
    /\ rows[0].selected_index = NumItems - 1
    /\ rows[0].target_scroll_x = -((NumItems - 5) * TILE_PITCH * Scale)

\* C11: on a row without items, handle_input(Left), handle_input(Right) and
\* update complete without failure, whether the row is active or not, and leave
\* selected_index and target_scroll_x as constructed.
C11_EmptyLaneSafe ==
    /\ result # "Panic"
    /\ \A r \in DOMAIN rows :
           VecLen(rows[r].items) = 0 =>
               /\ rows[r].selected_index = 0
               /\ rows[r].target_scroll_x = 0

\* one update moved c to d: no farther from target t, not beyond it, and
\* exactly on it when c was within eps of it
Toward(c, d, t, eps) ==
    /\ Abs(t - d) <= Abs(t - c)
    /\ c <= t => d <= t
    /\ c >= t => d >= t
    /\ Abs(t - c) <= eps => d = t

\* C12: in a run of updates without input, scroll_y, every row's scroll_x and
\* every item's anim_scale move monotonically toward their targets: an update
\* never increases the distance to the target, never crosses the target, and
\* sets the value to the target once it is within 0.5 (scroll) or 0.001 (scale).
C12_MonotoneLerp ==
    [][Update =>
         /\ Toward(scroll_y, scroll_y', target_scroll_y, Scale \div 2)
         /\ \A r \in DOMAIN rows :
                /\ Toward(rows[r].scroll_x, rows'[r].scroll_x,
                          rows[r].target_scroll_x, Scale \div 2)
                /\ \A i \in DOMAIN rows[r].items :
                       Toward(rows[r].items[i].anim_scale,
                              rows'[r].items[i].anim_scale,
                              TargetScale(rows[r], i), Scale \div 1000)]_vars

\* Mid-run: the grid scrolls back up and the selected item has reached 1.2
C12_Witness ==
    /\ run > 0
    /\ scroll_y < target_scroll_y
    /\ \E i \in DOMAIN ActiveRow.items :
           /\ ShouldBeSelected(ActiveRow, i)
           /\ ActiveRow.items[i].anim_scale = (12 * Scale) \div 10

\* C13: once inputs stop, finitely many updates bring the grid to a fixed
\* point: scroll_y and every scroll_x equal their targets and every anim_scale
\* is exactly 1.2 (selected item of the active row) or 1.0 (any other item);
\* further updates change none of these values.  (Finite form: no run of
\* updates is MaxRunTicks long, the fixed point is reached before that.)
C13_Settles ==
    [][/\ run' < MaxRunTicks
       /\ (Settled /\ Update) => UNCHANGED gridVars]_vars

\* At rest after scrolling down
C13_Witness ==
    /\ Settled
    /\ run = 0
    /\ scroll_y < 0
    /\ selected_row_index = LastRow
    /\ \E i \in DOMAIN ActiveRow.items :
           ActiveRow.items[i].anim_scale = (12 * Scale) \div 10

Natural(it) ==
    LET img == images[Unwrap(it.image_element)]
    IN  <<img.natural_width, img.natural_height>>

\* a 300 wide item whose image is known to be 600 x 300
Wide(it) ==
    /\ it.w = 300 * Scale
    /\ IsSome(it.image_element)
    /\ Natural(it) = <<600, 300>>

Fitted(it) == Wide(it) /\ it.h = 150 * Scale /\ ~it.resize_contain

\* C14: an item with resize_contain set and w = 300 whose image has the
\* natural size 600 x 300 has h = 150 and resize_contain = false after the
\* first update that sees the size, and keeps both on every later update.
C14_AspectFit ==
    [][Update =>
         \A r \in DOMAIN rows : \A i \in DOMAIN rows[r].items :
             LET it == rows[r].items[i]
             IN  ((Wide(it) /\ it.resize_contain) \/ Fitted(it))
                     => Fitted(rows[r].items[i])']_vars

\* An item of the last row was fitted to 150 while another image is still loading
C14_Witness ==
    /\ ticks = MaxTicks
    /\ Fitted(rows[LastRow].items[0])
    /\ \E iid \in DOMAIN images : images[iid].state = "loading"

ImageState(s) == images[Unwrap(cache[s]).image].state

\* the load of s was started and has not completed
Pending(s) == IsSome(cache[s]) /\ ImageState(s) \in {"loading", "broken"}

Broken(s) == IsSome(cache[s]) /\ ImageState(s) = "broken"

Placeholder(s) == textures[Unwrap(cache[s]).texture] = "placeholder"

\* C15: a load that failed or has not completed leaves the record in the
\* placeholder state: a failed load stays failed, no second load of the src is
\* started, the cache keeps the record, every get_texture of the src returns
\* that record and succeeds.
C15_FailedLoadStays ==
    [][\A s \in Srcs :
         /\ Pending(s)' => Placeholder(s)'
         /\ Pending(s) =>
               /\ cache'[s] = cache[s]
               /\ load_count'[s] = load_count[s]
               /\ \A e \in returned'[s] : e.record = Unwrap(cache[s])
         /\ Broken(s) => Broken(s)'
         /\ (Broken(s) /\ \E o \in Outcomes : GetTexture(s, o)) => result' = "Ok"]_vars

\* After the load of a src failed, get_texture returned its record again
C15_Witness ==
    \E s \in Srcs :
        /\ Broken(s)
        /\ result = "Ok"
        /\ \E e \in returned[s] : e.hit /\ e.state = "broken"

AllItems == {<<r, i>> : r \in DOMAIN rows, i \in 0 .. NumItems - 1}

ItemAt(p) == rows[p[1]].items[p[2]]

\* load_assets has run and its latest call returned Ok
LoadSucceeded ==
    /\ result = "Ok"
    /\ \E p \in AllItems : IsSome(ItemAt(p).texture) \/ IsSome(ItemAt(p).buffer)

\* C16: when the allocation of an item's buffer or texture fails during
\* load_assets, load_assets returns an error; so after a load_assets that
\* returned Ok every item has a buffer and a texture.
C16_AllocationFatal ==
    LoadSucceeded =>
        \A p \in AllItems : IsSome(ItemAt(p).buffer) /\ IsSome(ItemAt(p).texture)

\* C17 as stated: after every update, the quad in each item's buffer equals
\* create_rect of the item's current x, y, w, h, anim_scale, offset_x, offset_y.
C17_Original ==
    [][Update =>
         \A p \in AllItems :
             IsSome(ItemAt(p).buffer') =>
                 Unwrap(ItemAt(p).buffer') = create_rect(ItemAt(p)')]_vars
\* the buffer of item it holds the quad of it drawn at offsets that are
\* within eps of its current offsets
QuadWithin(it, eps) ==
    LET buf == Unwrap(it.buffer)
        now == create_rect(it)
        dx  == buf[1] - now[1]
        dy  == buf[2] - now[2]
    IN  /\ Abs(dx) <= eps
        /\ Abs(dy) <= eps
        /\ buf = create_rect([it EXCEPT !.offset_x = @ + dx, !.offset_y = @ + dy])

\* C17 (amended): after every update, the quad in each item's buffer is
\* create_rect of the item's current x, y, w, h and anim_scale at offsets
\* that differ from the current offset_x and offset_y by at most 0.2.
C17_WithinEpsilon ==
    [][Update =>
         \A p \in AllItems :
             IsSome(ItemAt(p).buffer') =>
                 QuadWithin(ItemAt(p)', (2 * Scale) \div 10)]_vars

\* During a run an update left a buffer behind the item's current offsets
C17_Witness ==
    /\ run > 0
    /\ \E p \in AllItems :
           /\ IsSome(ItemAt(p).buffer)
           /\ Unwrap(ItemAt(p).buffer) # create_rect(ItemAt(p))
           /\ ItemAt(p).h # 200 * Scale

\* every row and item carries the scroll values and the selection of the grid
Propagated ==
    \A r \in DOMAIN rows :
        /\ rows[r].offset_y = scroll_y
        /\ \A i \in DOMAIN rows[r].items :
               /\ rows[r].items[i].offset_y = scroll_y
               /\ rows[r].items[i].offset_x = rows[r].scroll_x
               /\ rows[r].items[i].is_selected = ShouldBeSelected(rows[r], i)

\* C18: immediately after ColumnList::update, every row's offset_y and every
\* item's offset_y equal the scroll_y computed in that update, every item's
\* offset_x equals its row's scroll_x computed in that update, and every
\* item's is_selected equals (row is active and index = selected_index).
C18_ParentBeforeChild == [][Update => Propagated']_vars

\* After scrolling both ways, the focused item carries both new scroll values
C18_Witness ==
    /\ ticks > 0
    /\ scroll_y < 0
    /\ ActiveRow.scroll_x < 0
    /\ Propagated

Textured == {p \in AllItems : IsSome(ItemAt(p).texture)}

\* the record an item holds: its texture and image handles
Held(p) == [texture |-> Unwrap(ItemAt(p).texture),
            image   |-> Unwrap(ItemAt(p).image_element)]

\* items with the same src hold the same record, the one in the cache
SharedBySrc ==
    \A p \in Textured : cache[ItemAt(p).src] = Some(Held(p))

\* an item whose image has loaded sees the image in its texture
SeesLoaded(p) ==
    images[Held(p).image].state = "complete" =>
        /\ textures[Held(p).texture] = "image"
        /\ images[Held(p).image].natural_width > 0
        /\ images[Held(p).image].natural_height > 0

\* the onload closure of image iid ran in this step
Completes(iid) ==
    /\ images[iid].state = "loading"
    /\ images'[iid].state = "complete"

\* C19: after load_assets all items with the same src hold the identical
\* record; a load completion changes that record in place from placeholder
\* to loaded, so every item of that src sees the loaded content and the
\* natural size from then on, no item's handles are replaced, and the
\* records of other srcs stay as they were.
C19_SharedInPlace ==
    [][/\ SharedBySrc'
       /\ \A p \in Textured' : SeesLoaded(p)'
       /\ \A iid \in DOMAIN images :
              Completes(iid) =>
                  /\ textures[onload[iid]] = "placeholder"
                  /\ \A p \in Textured : Held(p)' = Held(p)
                  /\ cache' = cache
                  /\ \A j \in DOMAIN images : j # iid => images'[j] = images[j]
                  /\ \A k \in DOMAIN textures :
                         k # onload[iid] => textures'[k] = textures[k]]_vars

\* Both srcs are held by items; one has loaded, the other shows its placeholder
C19_Witness ==
    /\ result = "Ok"
    /\ Textured = AllItems
    /\ \E p, q \in Textured :
           /\ ItemAt(p).src # ItemAt(q).src
           /\ images[Held(p).image].state = "complete"
           /\ textures[Held(p).texture] = "image"
           /\ images[Held(q).image].state = "loading"
           /\ textures[Held(q).texture] = "placeholder"

\* C20: RowList::handle_input on a row whose is_active is false changes
\* nothing, whatever the key: selected_index, target_scroll_x, scroll_x and
\* is_active stay as they were (and the call does not fail).
C20_InactiveNoOp ==
    [][\A r \in DOMAIN rows, k \in KeyCodes :
         (keys' = Append(keys, [lane |-> r, key |-> k]) /\ ~rows[r].is_active) =>
             /\ rows'[r].selected_index = rows[r].selected_index
             /\ rows'[r].target_scroll_x = rows[r].target_scroll_x
             /\ rows'[r].scroll_x = rows[r].scroll_x
             /\ rows'[r].is_active = rows[r].is_active
             /\ result' = result]_vars

\* Row 0 was moved right, lost the focus and then received Left
C20_Witness ==
    /\ keys = <<[lane |-> 0, key |-> KEY_RIGHT], [lane |-> -1, key |-> KEY_DOWN],
               [lane |-> 0, key |-> KEY_LEFT]>>
    /\ ~rows[0].is_active
    /\ rows[0].selected_index = 1

\* the selected_index of every row
Selections == [r \in DOMAIN rows |-> rows[r].selected_index]

\* the is_active flag of every row
ActiveFlags == [r \in DOMAIN rows |-> rows[r].is_active]

\* exactly row r is active
OnlyActive(r) == [q \in DOMAIN rows |-> q = r]

\* C21: an in-range move changes exactly one index by exactly one.  Up with
\* selected_row_index > 0 decrements it and Down below the last row increments
\* it, clearing the old row's is_active and setting the new row's; Left with
\* selected_index > 0 decrements and Right below the last item increments the
\* active row's selected_index; no other index changes.
C21_MoveByOne ==
    [][\A k \in KeyCodes :
         keys' = Append(keys, k) =>
           LET sri == selected_row_index
               sel == ActiveRow.selected_index
           IN  /\ (k = KEY_UP /\ sri > 0) =>
                     /\ selected_row_index' = sri - 1
                     /\ ActiveFlags' = OnlyActive(sri - 1)
                     /\ Selections' = Selections
               /\ (k = KEY_DOWN /\ sri < LastRow) =>
                     /\ selected_row_index' = sri + 1
                     /\ ActiveFlags' = OnlyActive(sri + 1)
                     /\ Selections' = Selections
               /\ (k = KEY_LEFT /\ sel > 0) =>
                     /\ Selections' = [Selections EXCEPT ![sri] = sel - 1]
                     /\ selected_row_index' = sri
               /\ (k = KEY_RIGHT /\ sel < LastItem(ActiveRow)) =>
                     /\ Selections' = [Selections EXCEPT ![sri] = sel + 1]
                     /\ selected_row_index' = sri]_vars

\* All four moves were made in range
C21_Witness ==
    /\ keys = <<KEY_RIGHT, KEY_RIGHT, KEY_LEFT, KEY_DOWN, KEY_DOWN, KEY_UP>>
    /\ Selections = [r \in DOMAIN rows |-> IF r = 0 THEN 1 ELSE 0]
    /\ selected_row_index = 1
    /\ ActiveFlags = OnlyActive(1)

\* the target_scroll_x of every row
TargetsX == [r \in DOMAIN rows |-> rows[r].target_scroll_x]

\* C22: Left and Right delivered to the grid affect only the row at
\* selected_row_index: selected_row_index, target_scroll_y, every row's
\* is_active, and selected_index and target_scroll_x of every other row
\* are unchanged.
C22_HorizontalFrame ==
    [][\A k \in {KEY_LEFT, KEY_RIGHT} :
         keys' = Append(keys, k) =>
             /\ selected_row_index' = selected_row_index
             /\ target_scroll_y' = target_scroll_y
             /\ ActiveFlags' = ActiveFlags
             /\ \A r \in DOMAIN rows \ {selected_row_index} :
                    /\ Selections'[r] = Selections[r]
                    /\ TargetsX'[r] = TargetsX[r]]_vars

\* Left moved row 1 back while row 0 kept the selection it was left with
C22_Witness ==
    /\ keys = <<KEY_RIGHT, KEY_DOWN, KEY_RIGHT, KEY_LEFT>>
    /\ selected_row_index = 1
    /\ rows[0].selected_index = 1
    /\ rows[1].selected_index = 0

\* the natural size of the item's image is not known: no image yet, or zero
SizeUnknown(it) ==
    \/ ~IsSome(it.image_element)
    \/ Natural(it)[1] = 0
    \/ Natural(it)[2] = 0

\* C23: the aspect fit is applied at most once per item: once an update has
\* cleared resize_contain, no later step (update, input, load completion)
\* changes the item's h or sets the flag again; and an update of an item whose
\* image has no natural size yet leaves h unchanged and the flag set.
C23_FitOnce ==
    [][/\ \A p \in AllItems :
            ~ItemAt(p).resize_contain =>
                /\ ~ItemAt(p).resize_contain'
                /\ ItemAt(p).h' = ItemAt(p).h
       /\ Update =>
            \A p \in AllItems :
                (ItemAt(p).resize_contain /\ SizeUnknown(ItemAt(p))) =>
                    /\ ItemAt(p).resize_contain'
                    /\ ItemAt(p).h' = ItemAt(p).h]_vars

\* After the grid scrolled down and came to rest, one item is fitted and
\* its neighbour still waits for its image
C23_Witness ==
    /\ run = 0
    /\ Settled
    /\ scroll_y < 0
    /\ Fitted(rows[0].items[0])
    /\ rows[0].items[1].resize_contain
    /\ IsSome(rows[0].items[1].image_element)
    /\ SizeUnknown(rows[0].items[1])

\* the image of the item has loaded with a non-zero natural size
SizeKnown(it) ==
    /\ IsSome(it.image_element)
    /\ images[Unwrap(it.image_element)].state = "complete"
    /\ Natural(it)[1] > 0
    /\ Natural(it)[2] > 0

\* C24: for every aspect ratio, an update of an item with resize_contain set
\* whose image has loaded with a non-zero natural size leaves resize_contain
\* false and h = w * natural_height / natural_width, also when h had that
\* value before (w = 300, h = 200 and a 300 x 200 image).
C24_FitResolves ==
    [][Update =>
         \A p \in AllItems :
             (ItemAt(p).resize_contain /\ SizeKnown(ItemAt(p))) =>
                 /\ ~ItemAt(p).resize_contain'
                 /\ ItemAt(p).h' = FitHeight(ItemAt(p).w, Natural(ItemAt(p))[1],
                                            Natural(ItemAt(p))[2])]_vars

\* C25: Up and Down change no row's selected_index or target_scroll_x, so a
\* row that is left and entered again is active with the selected_index and
\* target_scroll_x it had, and the update after that marks exactly the item
\* at that index as selected.
C25_FocusKept ==
    [][/\ (HandleInput(KEY_UP) \/ HandleInput(KEY_DOWN)) =>
            /\ Selections' = Selections
            /\ TargetsX' = TargetsX
       /\ Update =>
            \A i \in DOMAIN ActiveRow.items :
                ActiveRow.items[i].is_selected' = (i = ActiveRow.selected_index)]_vars

\* Row 0 was left at item 2, row 1 was moved, and row 0 is active again with
\* item 2 selected
C25_Witness ==
    /\ ticks > 0
    /\ selected_row_index = 0
    /\ rows[0].is_active
    /\ rows[0].selected_index = 2
    /\ rows[1].selected_index = 1
    /\ SelectedTiles(rows[0]) = {2}

\* what update animates: the scroll positions and the items (anim_scale,
\* offsets and is_selected, compared together with every other item field)
AnimState ==
    <<scroll_y, [r \in DOMAIN rows |-> <<rows[r].scroll_x, rows[r].items>>]>>

\* C26: update and handle_input write disjoint state: update changes neither
\* selected_row_index, any is_active, any selected_index, target_scroll_y nor
\* any target_scroll_x; handle_input changes neither scroll_y, any scroll_x
\* nor any item's anim_scale, offsets or is_selected.
C26_DisjointState ==
    [][/\ Update => NavState' = NavState
       /\ presses' = presses + 1 => AnimState' = AnimState]_vars

\* Mid-scroll the focus went back to row 0: the target is 0 again while
\* scroll_y is where the last update left it
C26_Witness ==
    /\ ticks > 0
    /\ presses > 0
    /\ selected_row_index = 0
    /\ target_scroll_y = 0
    /\ scroll_y < 0
    /\ ActiveRow.selected_index > 0

\* C27: a get_texture that fails (no texture handle, or the placeholder
\* upload rejected) returns Err, inserts no entry and starts no load: the
\* manager is as before.  A later get_texture of the src then finds no entry,
\* creates the record and starts the one load of the src.
C27_FailedGetLeavesNoTrace ==
    [][\A s \in Srcs :
         cache[s] = None =>
           /\ (\E o \in Outcomes \ {"ok"} : GetTexture(s, o)) =>
                 /\ result' = "Err"
                 /\ cache' = cache
                 /\ images' = images
                 /\ onload' = onload
                 /\ load_count' = load_count
                 /\ returned' = returned
           /\ GetTexture(s, "ok") =>
                 /\ result' = "Ok"
                 /\ IsSome(cache'[s])
                 /\ load_count'[s] = 1
                 /\ images'[Unwrap(cache'[s]).image].state = "loading"]_vars

\* One src is cached and loading; a get_texture of the other has failed and
\* left no entry (no item has a buffer, so load_assets was not called)
C27_Witness ==
    /\ result = "Err"
    /\ IsSome(cache[SRC_EVEN])
    /\ cache[SRC_ODD] = None
    /\ load_count[SRC_ODD] = 0
    /\ Len(images) = 1
    /\ \A p \in AllItems : ~IsSome(ItemAt(p).buffer)

====
